---- MODULE Spec2Model ----
(***************************************************************************)
(* Model of the capture pipeline of video_taker: capturador.py (file       *)
(* naming, the capture session capturar_video, the worker worker_captura   *)
(* and the orchestrator capturar_todas_las_camaras) with the file-name     *)
(* format of config.py.  Bytes are naturals 0..255, strings are TLA+       *)
(* strings or sequences of tokens, the wall clock is a counter of seconds. *)
(***************************************************************************)
EXTENDS Integers, Sequences, FiniteSets, TLC

(***************************************************************************)
(* Bounds of the model.                                                    *)
(***************************************************************************)
\* longest camera list handed to the orchestrator
MaxCamaras == 2
\* largest max_hilos a caller passes (0 stands for every value <= 0)
MaxHilos == 2
\* the clock stops ticking at this second
MaxReloj == 1
\* POST /capturar requests made to the API
MaxPeticiones == 2

(***************************************************************************)
(* Program constants.                                                      *)
(***************************************************************************)
\* camara.get("duracion", 30)
DuracionPorDefecto == 30
\* camara.get("fps", 20)
FpsPorDefecto == 20
\* response.status_code != 200
CodigoOK == 200
\* the bytes of the JPEG markers b'\xff\xd8' and b'\xff\xd9'
ByteFF == 255
ByteD8 == 216
ByteD9 == 217

DIRECTORIO_VIDEOS == "videos_capturados"

(***************************************************************************)
(* File-name formats.  A format string is the sequence of its pieces: a    *)
(* literal, or a replacement field [campo |-> name].  FORMATO_NOMBRE is    *)
(* "camara_{id}_{timestamp}.{ext}" of config.py; FormatoSinExt is a format *)
(* a caller of capturador.py may pass that names only id and timestamp.    *)
(***************************************************************************)
Lit(s) == [lit |-> s]
Campo(c) == [campo |-> c]

FORMATO_NOMBRE ==
    << Lit("camara_"), Campo("id"), Lit("_"), Campo("timestamp"), Lit("."), Campo("ext") >>

FormatoSinExt ==
    << Lit("camara_"), Campo("id"), Lit("_"), Campo("timestamp"), Lit(".mp4") >>

Formatos == { FORMATO_NOMBRE, FormatoSinExt }

EsCampo(p) == "campo" \in DOMAIN p

\* str.format(**args): raises KeyError when a replacement field is not among
\* the keyword arguments, otherwise substitutes every field.
StrFormat(formato, args) ==
    IF \E i \in 1..Len(formato) : EsCampo(formato[i]) /\ formato[i].campo \notin DOMAIN args
    THEN [error |-> "KeyError"]
    ELSE [valor |-> [i \in 1..Len(formato) |->
                        IF EsCampo(formato[i]) THEN args[formato[i].campo]
                                               ELSE formato[i].lit]]

Fallo(r) == "error" \in DOMAIN r

\* generar_nombre_archivo(formato, id_camara, directorio) at second `ahora`:
\* the timestamp has second resolution; the path is directorio/nombre_archivo.
generar_nombre_archivo(formato, id_camara, directorio, ahora) ==
    LET f == StrFormat(formato, [id |-> id_camara, timestamp |-> ahora])
    IN  IF Fallo(f) THEN f ELSE [valor |-> <<directorio>> \o f.valor]

(***************************************************************************)
(* The video format of config.py: the value FORMATO_VIDEO is bound to at    *)
(* import, the codec table, and the two getters, as functions of the        *)
(* current value of the global.                                            *)
(***************************************************************************)
FormatoVideoInicial == "avi"

CODECS == [mp4 |-> "mp4v", avi |-> "I420"]

\* str.lower() on the strings a caller passes
Lower(formato) ==
    CASE formato = "MP4" -> "mp4"
      [] formato = "AVI" -> "avi"
      [] OTHER -> formato

obtener_extension(formato_video) == formato_video

obtener_codec(formato_video) == CODECS[formato_video]

\* cv2.VideoWriter_fourcc(*'mp4v'): the codec capturar_video asks for
FourccDeCaptura == "mp4v"

(***************************************************************************)
(* Bytes: bytes.find and slicing with Python's 0-based indices.            *)
(***************************************************************************)
\* bytes_data.find(bytes([x, y])): least 0-based index of the pair, or -1
Find(s, x, y) ==
    LET hits == { i \in 0..(Len(s) - 2) : s[i + 1] = x /\ s[i + 2] = y }
    IN  IF hits = {} THEN -1 ELSE CHOOSE i \in hits : \A j \in hits : i <= j

\* s[i:j] for 0 <= i, 0 <= j
Slice(s, i, j) ==
    LET hi == IF j > Len(s) THEN Len(s) ELSE j
    IN  IF i >= hi THEN << >> ELSE SubSeq(s, i + 1, hi)

\* s[i:]
SliceFrom(s, i) == Slice(s, i, Len(s))

(***************************************************************************)
(* cv2.imdecode.  A payload decodes to a frame exactly when it is          *)
(* FF D8 w h FF D9 with w, h in 1..2 (a two-byte body that carries the     *)
(* geometry); any other non-empty payload yields None.  An empty buffer    *)
(* makes OpenCV 4 raise cv2.error and OpenCV 3 return None, so both are    *)
(* outcomes.                                                               *)
(***************************************************************************)
Geometrias == 1..2

imdecode(jpg_data) ==
    IF jpg_data = << >>
    THEN { [tipo |-> "error"], [tipo |-> "None"] }
    ELSE IF /\ Len(jpg_data) = 6
            /\ jpg_data[1] = ByteFF /\ jpg_data[2] = ByteD8
            /\ jpg_data[3] \in Geometrias /\ jpg_data[4] \in Geometrias
            /\ jpg_data[5] = ByteFF /\ jpg_data[6] = ByteD9
         THEN { [tipo |-> "frame", ancho |-> jpg_data[3], alto |-> jpg_data[4]] }
         ELSE { [tipo |-> "None"] }

(***************************************************************************)
(* The camera servers, keyed by URL: what session.get and the successive   *)
(* response.raw.read(1024) calls deliver.  A read delivers a chunk, raises *)
(* (err), or, past the end of the script, returns no bytes.                *)
(***************************************************************************)
Dato(bytes) == [err |-> FALSE, datos |-> bytes]
ErrorLectura == [err |-> TRUE, datos |-> << >>]
Frame(w, h) == << ByteFF, ByteD8, w, h, ByteFF, ByteD9 >>

Servidor(url) ==
    CASE url = "http://ok" ->
            [conexion |-> "respuesta", status_code |-> CodigoOK,
             flujo |-> << Dato(Frame(1, 1)), Dato(Frame(2, 1)) >>]
      [] url = "http://uno" ->
            [conexion |-> "respuesta", status_code |-> CodigoOK,
             flujo |-> << Dato(Frame(1, 1)) >>]
      [] url = "http://partido" ->
            [conexion |-> "respuesta", status_code |-> CodigoOK,
             flujo |-> << Dato(<< 0, ByteFF, ByteD8, 2 >>), Dato(<< 1, ByteFF, ByteD9 >>) >>]
      [] url = "http://sin_marcas" ->
            [conexion |-> "respuesta", status_code |-> CodigoOK,
             flujo |-> << Dato(<< 0, ByteFF, ByteD8 >>), Dato(<< 0, 0 >>) >>]
      [] url = "http://corrupto" ->
            [conexion |-> "respuesta", status_code |-> CodigoOK,
             flujo |-> << Dato(<< ByteFF, ByteD8, 0, ByteFF, ByteD9 >>) >>]
      [] url = "http://corte" ->
            [conexion |-> "respuesta", status_code |-> CodigoOK,
             flujo |-> << Dato(Frame(1, 2)), ErrorLectura >>]
      [] url = "http://doble" ->
            [conexion |-> "respuesta", status_code |-> CodigoOK,
             flujo |-> << Dato(Frame(1, 1) \o Frame(2, 1)) >>]
      [] url = "http://fin_antes" ->
            [conexion |-> "respuesta", status_code |-> CodigoOK,
             flujo |-> << Dato(<< ByteFF, ByteD9, 0 >> \o Frame(1, 1)) >>]
      [] url = "http://corrupto_y_bueno" ->
            [conexion |-> "respuesta", status_code |-> CodigoOK,
             flujo |-> << Dato(<< ByteFF, ByteD8, 0, ByteFF, ByteD9 >> \o Frame(1, 1)) >>]
      [] url = "http://vacio" ->
            [conexion |-> "respuesta", status_code |-> CodigoOK, flujo |-> << >>]
      [] url = "http://404" ->
            [conexion |-> "respuesta", status_code |-> 404, flujo |-> << >>]
      [] OTHER ->
            [conexion |-> "RequestException", status_code |-> 0, flujo |-> << >>]

(***************************************************************************)
(* Camera descriptors: dicts with the keys id, nombre, url and, optional,   *)
(* duracion and fps.                                                       *)
(***************************************************************************)
Desc(i, url, duracion, fps) ==
    [id |-> i, nombre |-> << "Camara", i >>, url |-> url, duracion |-> duracion, fps |-> fps]

\* descriptors that leave duracion and fps to their defaults / lack "nombre"
DescMinimo(i, url) == [id |-> i, nombre |-> << "Camara", i >>, url |-> url]
DescSinNombre(i, url) == [id |-> i, url |-> url]

\* the descriptors tried for a camera that is captured alone
DescriptoresSolo(i) ==
    { Desc(i, u, 1, 1) : u \in { "http://ok", "http://partido", "http://sin_marcas",
                                 "http://corrupto", "http://corte", "http://404",
                                 "http://rechazo", "http://doble", "http://fin_antes",
                                 "http://corrupto_y_bueno" } }
    \cup { Desc(i, "http://ok", 1, 0), Desc(i, "http://ok", 0, 1), Desc(i, "http://ok", 2, 2),
           DescMinimo(i, "http://ok"), DescSinNombre(i, "http://ok") }

\* the descriptors tried for the cameras of a list of n >= 2 cameras: a
\* stream of one frame captured with the default duracion and fps, a 404 and,
\* in a pair, a read error after the first frame
DescriptoresGrupo(i, n) ==
    { DescMinimo(i, "http://uno"), Desc(i, "http://404", 1, 1) }
    \cup (IF n = 2 THEN { Desc(i, "http://corte", 1, 1) } ELSE { })

\* camera lists with distinct ids: the camera at position i has id i
ListasDeCamaras ==
    { << >> }
    \cup { << d >> : d \in DescriptoresSolo(1) }
    \cup UNION { { l \in [1..n -> UNION { DescriptoresGrupo(i, n) : i \in 1..n }] :
                     \A i \in 1..n : l[i] \in DescriptoresGrupo(i, n) } : n \in 2..MaxCamaras }

\* dict.get(key, default)
Get(camara, key, default) == IF key \in DOMAIN camara THEN camara[key] ELSE default

(***************************************************************************)
(* State.                                                                  *)
(***************************************************************************)
VARIABLES
    camaras,         \* the list the caller passes to capturar_todas_las_camaras
    formato_nombre,  \* the format the caller passes
    FORMATO_VIDEO,   \* the global of config.py that cambiar_formato_video rebinds
    reloj,           \* time.time() / datetime.now(), in seconds
    dir_existe,      \* os.path.exists(directorio)
    opc,             \* where capturar_todas_las_camaras is
    max_hilos,       \* its argument
    num_hilos,       \* min(max_hilos, len(camaras))
    lanzados,        \* threads started so far (len(hilos))
    queue,           \* the items of queue = Queue()
    pendientes,      \* queue.unfinished_tasks, what queue.join() waits for
    resultados,      \* the shared result list, the value returned
    hilo,            \* the worker threads and their capturar_video frames
    sesiones,        \* per camera id: the capturar_video calls made and how the call ended
    tareas_activas,  \* the dict of api.py: task id -> estado ("ausente": no such key)
    peticiones       \* the POST /capturar requests: the id returned, and their background task

vars == << camaras, tareas_activas, peticiones, formato_nombre, FORMATO_VIDEO, reloj, dir_existe, opc, max_hilos, num_hilos, lanzados,
           queue, pendientes, resultados, hilo, sesiones >>

Hilos == 1..MaxCamaras
Ids == 1..MaxCamaras

SinCamara == [id |-> 0]
SinRetorno == [exito |-> FALSE, archivo |-> << >>, mensaje |-> << >>]
SinSesion == [llamadas |-> 0, fin |-> "", retorno |-> SinRetorno]

\* a thread that is not started, with an empty capturar_video frame
HiloNuevo ==
    [pc |-> "sin_lanzar", camara |-> SinCamara, output_filename |-> << >>,
     conexiones |-> 0, fourcc |-> "", leidos |-> 0, bytes_data |-> << >>,
     entregas |-> 0, jpg_data |-> << >>, frame_size |-> << >>, out |-> "None",
     aperturas |-> 0, escrituras |-> 0, liberaciones |-> 0, frames_captured |-> 0,
     start_time |-> 0, excepcion |-> "", retorno |-> SinRetorno]

\* faulty variant: the thread count is not limited by max_hilos
MinSinTope(a, b) == b

\* min(max_hilos, len(camaras))
Min(a, b) == IF a < b THEN a ELSE b

\* the requests, and the task ids datetime.now().strftime('%Y%m%d%H%M%S')
\* yields: one per second of the clock
Peticiones == 1..MaxPeticiones
TaskIds == 0..MaxReloj

SinPeticion == [pc |-> "sin_pedir", task_id |-> 0]

Init ==
    /\ camaras \in ListasDeCamaras
    /\ formato_nombre \in Formatos
    /\ FORMATO_VIDEO = FormatoVideoInicial
    /\ reloj = 0
    /\ dir_existe \in BOOLEAN
    /\ opc = "inactivo"
    /\ max_hilos = 0
    /\ num_hilos = 0
    /\ lanzados = 0
    /\ queue = << >>
    /\ pendientes = 0
    /\ resultados = << >>
    /\ hilo = [w \in Hilos |-> HiloNuevo]
    /\ sesiones = [i \in Ids |-> SinSesion]
    /\ tareas_activas = [t \in TaskIds |-> "ausente"]
    /\ peticiones = [r \in Peticiones |-> SinPeticion]

(***************************************************************************)
(* The clock.                                                              *)
(***************************************************************************)
Tick ==
    /\ reloj < MaxReloj
    /\ reloj' = reloj + 1
    /\ UNCHANGED << camaras, tareas_activas, peticiones, formato_nombre, FORMATO_VIDEO, dir_existe, opc, max_hilos, num_hilos, lanzados,
                    queue, pendientes, resultados, hilo, sesiones >>

(***************************************************************************)
(* config.cambiar_formato_video(formato), called between captures: an      *)
(* invalid format leaves the global as it is (and returns False).          *)
(***************************************************************************)
FormatosPedidos == { "mp4", "MP4", "avi", "mkv" }

cambiar_formato_video(formato) ==
    /\ opc = "inactivo"
    /\ FORMATO_VIDEO' = IF Lower(formato) \notin DOMAIN CODECS THEN FORMATO_VIDEO
                                                               ELSE Lower(formato)
    /\ UNCHANGED << camaras, tareas_activas, peticiones, formato_nombre, reloj, dir_existe, opc, max_hilos, num_hilos,
                    lanzados, queue, pendientes, resultados, hilo, sesiones >>

(***************************************************************************)
(* capturar_todas_las_camaras.                                             *)
(***************************************************************************)
\* configurar_directorios(directorio): the directory exists afterwards
configurar_directorios(existe) == IF ~existe THEN TRUE ELSE existe

\* faulty variant: the empty list is not told apart
SinCamarasNunca(lista) == FALSE

\* line 175: if not camaras
SinCamaras(lista) == Len(lista) = 0

\* lines 175-191: the empty list returns [] at once; otherwise the directory
\* is made, every camera is put on a fresh queue and num_hilos is computed.
Llamar(p) ==
    /\ opc = "inactivo"
    /\ max_hilos' = p
    /\ resultados' = << >>
    /\ IF SinCamaras(camaras)
       THEN /\ opc' = "retornado"
            /\ queue' = << >>
            /\ pendientes' = 0
            /\ num_hilos' = 0
            /\ UNCHANGED dir_existe
       ELSE /\ opc' = "lanzando"
            /\ dir_existe' = configurar_directorios(dir_existe)
            /\ queue' = camaras
            /\ pendientes' = Len(camaras)
            /\ num_hilos' = Min(p, Len(camaras))
    /\ UNCHANGED << camaras, tareas_activas, peticiones, formato_nombre, FORMATO_VIDEO, reloj, lanzados, hilo, sesiones >>

\* lines 196-200: one t.start() of the loop over range(num_hilos)
Lanzar ==
    /\ opc = "lanzando"
    /\ lanzados < num_hilos
    /\ lanzados' = lanzados + 1
    /\ hilo' = [hilo EXCEPT ![lanzados + 1].pc = "while"]
    /\ UNCHANGED << camaras, tareas_activas, peticiones, formato_nombre, FORMATO_VIDEO, reloj, dir_existe, opc, max_hilos, num_hilos,
                    queue, pendientes, resultados, sesiones >>

\* the loop over range(num_hilos) is over: queue.join() is entered
Esperar ==
    /\ opc = "lanzando"
    /\ lanzados >= num_hilos
    /\ opc' = "join"
    /\ UNCHANGED << camaras, tareas_activas, peticiones, formato_nombre, FORMATO_VIDEO, reloj, dir_existe, max_hilos, num_hilos, lanzados,
                    queue, pendientes, resultados, hilo, sesiones >>

\* faulty variant: a join that returns while one task is still unfinished
JoinListoPronto(unfinished) == unfinished <= 1

\* queue.join() blocks until every put has had its task_done
JoinListo(unfinished) == unfinished = 0

\* lines 203-205: queue.join() returns, return resultados
Retornar ==
    /\ opc = "join"
    /\ JoinListo(pendientes)
    /\ opc' = "retornado"
    /\ UNCHANGED << camaras, tareas_activas, peticiones, formato_nombre, FORMATO_VIDEO, reloj, dir_existe, max_hilos, num_hilos, lanzados,
                    queue, pendientes, resultados, hilo, sesiones >>

(***************************************************************************)
(* capturar_video, as steps of the thread that runs it.                    *)
(***************************************************************************)
CamposLeidos == { "id", "nombre", "url" }

\* lines 52-59: the subscripts camara["id"], camara["nombre"], camara["url"]
\* and generar_nombre_archivo, all before the try: the name, or the error raised
Preparar(camara, formato, ahora) ==
    IF ~(CamposLeidos \subseteq DOMAIN camara)
    THEN [error |-> "KeyError"]
    ELSE generar_nombre_archivo(formato, camara.id, DIRECTORIO_VIDEOS, ahora)

Retorno(exito, archivo, mensaje) == [exito |-> exito, archivo |-> archivo, mensaje |-> mensaje]

\* lines 135-138: except requests.exceptions.RequestException
ExceptRequest(h) ==
    [h EXCEPT !.pc = "append", !.excepcion = "RequestException",
              !.retorno = Retorno(FALSE, h.output_filename,
                                  << "Error de conexion para", h.camara.nombre >>)]

\* lines 139-142: except Exception
ExceptException(h, tipo) ==
    [h EXCEPT !.pc = "append", !.excepcion = tipo,
              !.retorno = Retorno(FALSE, h.output_filename,
                                  << "Error durante la captura de", h.camara.nombre >>)]

\* lines 76-85: the codec and the locals of the loop
Entrar(h, ahora) ==
    [h EXCEPT !.pc = "bucle", !.fourcc = FourccDeCaptura, !.frame_size = << >>,
              !.out = "None", !.bytes_data = << >>, !.start_time = ahora,
              !.frames_captured = 0]

\* faulty variant: the status code is not looked at
ConectarSinEstado(h, ahora) ==
    LET g == [h EXCEPT !.conexiones = @ + 1]
    IN  IF Servidor(h.camara.url).conexion = "RequestException"
        THEN ExceptRequest(g)
        ELSE Entrar(g, ahora)

\* faulty variant: a refused connection is tried a second time
ConectarReintenta(h, ahora) ==
    LET srv == Servidor(h.camara.url)
        g == [h EXCEPT !.conexiones = @ + 1]
    IN  IF srv.conexion = "RequestException"
        THEN IF h.conexiones = 0 THEN g ELSE ExceptRequest(g)
        ELSE IF srv.status_code # CodigoOK
        THEN [g EXCEPT !.pc = "append",
                       !.retorno = Retorno(FALSE, h.output_filename,
                                           << "Error al conectar a la URL de", h.camara.nombre,
                                              srv.status_code >>)]
        ELSE Entrar(g, ahora)

\* lines 68-85: session.get, the status test, and the locals of the loop
Conectar(h, ahora) ==
    LET srv == Servidor(h.camara.url)
        g == [h EXCEPT !.conexiones = @ + 1]
    IN  IF srv.conexion = "RequestException"
        THEN ExceptRequest(g)
        ELSE IF srv.status_code # CodigoOK
        THEN [g EXCEPT !.pc = "append",
                       !.retorno = Retorno(FALSE, h.output_filename,
                                           << "Error al conectar a la URL de", h.camara.nombre,
                                              srv.status_code >>)]
        ELSE Entrar(g, ahora)

\* faulty variant: success is reported whether or not the writer was opened
LiberarSiempreExito(h) ==
    [h EXCEPT !.pc = "append", !.out = IF h.out # "None" THEN "liberado" ELSE "None",
              !.liberaciones = IF h.out # "None" THEN @ + 1 ELSE @,
              !.retorno = Retorno(TRUE, h.output_filename,
                                  << "Captura completada", h.frames_captured >>)]

\* lines 124-133: after the loop
Liberar(h) ==
    IF h.out # "None"
    THEN [h EXCEPT !.pc = "append", !.out = "liberado", !.liberaciones = @ + 1,
                   !.retorno = Retorno(TRUE, h.output_filename,
                                       << "Captura completada", h.frames_captured >>)]
    ELSE [h EXCEPT !.pc = "append",
                   !.retorno = Retorno(FALSE, h.output_filename,
                                       << "No se pudo iniciar la captura de video para",
                                          h.camara.nombre >>)]

\* faulty variant: a while whose condition never fails
DentroSiempre(h, ahora) == TRUE

\* line 88: the condition of the while
DentroDelPlazo(h, ahora) == ahora - h.start_time < Get(h.camara, "duracion", DuracionPorDefecto)

\* lines 97-103: the payload handed to the decoder and what stays buffered
Extraer(bytes) ==
    LET a == Find(bytes, ByteFF, ByteD8)
        b == Find(bytes, ByteFF, ByteD9)
    IN  IF a # -1 /\ b # -1
        THEN [hay |-> TRUE, jpg_data |-> Slice(bytes, a, b + 2), resto |-> SliceFrom(bytes, b + 2)]
        ELSE [hay |-> FALSE, jpg_data |-> << >>, resto |-> bytes]

\* frames_captured % fps == 0 (line 120): raises ZeroDivisionError when fps is 0
ProgresoFalla(h) == Get(h.camara, "fps", FpsPorDefecto) = 0

\* faulty variant: every decoded frame rebinds frame_size and opens a writer
EscribirReabre(h, frame) ==
    LET abierto == [h EXCEPT !.frame_size = << frame.ancho, frame.alto >>,
                             !.out = "abierto", !.aperturas = @ + 1]
        escrito == [abierto EXCEPT !.escrituras = @ + 1, !.frames_captured = @ + 1]
    IN  IF ProgresoFalla(escrito) THEN ExceptException(escrito, "ZeroDivisionError")
                                  ELSE escrito

\* lines 108-122: a decoded frame opens the writer if it is the first, is
\* written and counted; then the progress test
Escribir(h, frame) ==
    LET abierto == IF h.frame_size = << >>
                   THEN [h EXCEPT !.frame_size = << frame.ancho, frame.alto >>,
                                  !.out = "abierto", !.aperturas = @ + 1]
                   ELSE h
        escrito == [abierto EXCEPT !.escrituras = @ + 1, !.frames_captured = @ + 1]
    IN  IF ProgresoFalla(escrito) THEN ExceptException(escrito, "ZeroDivisionError")
                                  ELSE escrito

\* lines 94-122: the body of the loop for a chunk that is not empty,
\* with `frame` the outcome of cv2.imdecode when a payload is extracted
Cuerpo(h, chunk, frame) ==
    LET e == Extraer(h.bytes_data \o chunk)
        g == IF e.hay THEN [h EXCEPT !.bytes_data = e.resto, !.jpg_data = e.jpg_data,
                                     !.entregas = @ + 1]
                      ELSE [h EXCEPT !.bytes_data = e.resto]
    IN  IF ~e.hay THEN g
        ELSE IF frame.tipo = "error" THEN ExceptException(g, "cv2.error")
        ELSE IF frame.tipo = "None" THEN g
        ELSE Escribir(g, frame)

\* what the next response.raw.read(1024) returns when it does not raise:
\* the next chunk of the script, or no bytes once the stream is exhausted
ChunkSiguiente(h) ==
    LET flujo == Servidor(h.camara.url).flujo
    IN  IF h.leidos < Len(flujo) THEN flujo[h.leidos + 1].datos ELSE << >>

\* the outcomes cv2.imdecode can have in the next pass of the body (a dummy
\* outcome when no payload is extracted)
Decodificados(h) ==
    LET e == Extraer(h.bytes_data \o ChunkSiguiente(h))
    IN  IF e.hay THEN imdecode(e.jpg_data) ELSE { [tipo |-> "None"] }

\* lines 88-133: one evaluation of the while condition and, if it holds, one
\* read and one pass of the body; leaving the loop runs lines 124-133.
Iterar(h, ahora, frame) ==
    LET flujo == Servidor(h.camara.url).flujo
    IN  IF ~DentroDelPlazo(h, ahora) THEN Liberar(h)
        ELSE IF h.leidos >= Len(flujo) THEN Liberar(h)
        ELSE IF flujo[h.leidos + 1].err
             THEN ExceptException([h EXCEPT !.leidos = @ + 1], "ReadError")
             ELSE Cuerpo([h EXCEPT !.leidos = @ + 1], flujo[h.leidos + 1].datos, frame)

(***************************************************************************)
(* worker_captura.                                                         *)
(***************************************************************************)
\* line 146: while not queue.empty()
WWhile(w) ==
    /\ hilo[w].pc = "while"
    /\ hilo' = [hilo EXCEPT ![w].pc = IF queue = << >> THEN "terminado" ELSE "get"]
    /\ UNCHANGED << camaras, tareas_activas, peticiones, formato_nombre, FORMATO_VIDEO, reloj, dir_existe, opc, max_hilos, num_hilos,
                    lanzados, queue, pendientes, resultados, sesiones >>

\* the frame of the thread after camara = queue.get() and lines 52-64 of the
\* capturar_video call: an exception raised there reaches the except of the
\* worker (line 157), which appends nothing
Tomar(h, camara, formato, ahora) ==
    LET n == Preparar(camara, formato, ahora)
        g == [HiloNuevo EXCEPT !.camara = camara]
    IN  IF Fallo(n) THEN [g EXCEPT !.pc = "task_done", !.excepcion = n.error]
                    ELSE [g EXCEPT !.pc = "conectar", !.output_filename = n.valor]

\* history of the calls: how the capturar_video call of frame h has ended, if
\* it has (by return, or by an exception that left the function)
Anotar(ses, h) ==
    IF h.pc = "append" THEN [ses EXCEPT !.fin = "retorno", !.retorno = h.retorno]
    ELSE IF h.pc = "task_done" THEN [ses EXCEPT !.fin = "excepcion"]
    ELSE ses

\* faulty variant: a get that leaves the item on the queue
DesencolarDeja(q) == q

\* queue.get() removes the item at the head of the queue
Desencolar(q) == Tail(q)

\* lines 148-149: queue.get() blocks while the queue is empty
WGet(w) ==
    /\ hilo[w].pc = "get"
    /\ queue # << >>
    /\ queue' = Desencolar(queue)
    /\ hilo' = [hilo EXCEPT ![w] = Tomar(hilo[w], Head(queue), formato_nombre, reloj)]
    /\ sesiones' = [sesiones EXCEPT ![Head(queue).id] =
                        Anotar([@ EXCEPT !.llamadas = @ + 1], hilo'[w])]
    /\ UNCHANGED << camaras, tareas_activas, peticiones, formato_nombre, FORMATO_VIDEO, reloj, dir_existe, opc, max_hilos, num_hilos,
                    lanzados, pendientes, resultados >>

WConectar(w) ==
    /\ hilo[w].pc = "conectar"
    /\ hilo' = [hilo EXCEPT ![w] = Conectar(hilo[w], reloj)]
    /\ sesiones' = [sesiones EXCEPT ![hilo[w].camara.id] = Anotar(@, hilo'[w])]
    /\ UNCHANGED << camaras, tareas_activas, peticiones, formato_nombre, FORMATO_VIDEO, reloj, dir_existe, opc, max_hilos, num_hilos,
                    lanzados, queue, pendientes, resultados >>

WBucle(w) ==
    /\ hilo[w].pc = "bucle"
    /\ \E frame \in Decodificados(hilo[w]) :
          hilo' = [hilo EXCEPT ![w] = Iterar(hilo[w], reloj, frame)]
    /\ sesiones' = [sesiones EXCEPT ![hilo[w].camara.id] = Anotar(@, hilo'[w])]
    /\ UNCHANGED << camaras, tareas_activas, peticiones, formato_nombre, FORMATO_VIDEO, reloj, dir_existe, opc, max_hilos, num_hilos,
                    lanzados, queue, pendientes, resultados >>

\* lines 150-156: the record appended for a call that returned
Registro(h) ==
    [id |-> h.camara.id, nombre |-> h.camara.nombre, exito |-> h.retorno.exito,
     archivo |-> h.retorno.archivo, mensaje |-> h.retorno.mensaje]

\* faulty variant: an append that loses the records appended before
AgregarPierde(lista, registro) == << registro >>

\* resultados.append(registro)
Agregar(lista, registro) == Append(lista, registro)

WAppend(w) ==
    /\ hilo[w].pc = "append"
    /\ opc # "una"
    /\ resultados' = Agregar(resultados, Registro(hilo[w]))
    /\ hilo' = [hilo EXCEPT ![w].pc = "task_done"]
    /\ UNCHANGED << camaras, tareas_activas, peticiones, formato_nombre, FORMATO_VIDEO, reloj, dir_existe, opc, max_hilos, num_hilos,
                    lanzados, queue, pendientes, sesiones >>

\* line 160: finally: queue.task_done(), then back to the while; the locals of
\* the iteration are dead from here on
WTaskDone(w) ==
    /\ hilo[w].pc = "task_done"
    /\ pendientes' = pendientes - 1
    /\ hilo' = [hilo EXCEPT ![w] = [HiloNuevo EXCEPT !.pc = "while"]]
    /\ UNCHANGED << camaras, tareas_activas, peticiones, formato_nombre, FORMATO_VIDEO, reloj, dir_existe, opc, max_hilos, num_hilos,
                    lanzados, queue, resultados, sesiones >>

(***************************************************************************)
(* capturar_video called directly for one camera of the configuration      *)
(* (main.py -s, POST /capturar/{id_camara}): the call runs in the thread   *)
(* of the caller, frame 1 of the model, with no configurar_directorios     *)
(* before it; an exception raised before the try leaves the call.          *)
(***************************************************************************)
CapturarUna(i) ==
    /\ opc = "inactivo"
    /\ i \in 1..Len(camaras)
    /\ LET g == Tomar(hilo[1], camaras[i], formato_nombre, reloj)
       IN  /\ hilo' = [hilo EXCEPT ![1] = IF g.pc = "task_done"
                                          THEN [g EXCEPT !.pc = "propagada"] ELSE g]
           /\ opc' = IF g.pc = "task_done" THEN "una_excepcion" ELSE "una"
           /\ sesiones' = [sesiones EXCEPT ![camaras[i].id] =
                               Anotar([@ EXCEPT !.llamadas = @ + 1], g)]
    /\ UNCHANGED << camaras, tareas_activas, peticiones, formato_nombre, FORMATO_VIDEO, reloj, dir_existe, max_hilos,
                    num_hilos, lanzados, queue, pendientes, resultados >>

\* exito, archivo, mensaje = capturar_video(...): the triple reaches the caller
RetornarUna ==
    /\ opc = "una"
    /\ hilo[1].pc = "append"
    /\ opc' = "una_retornada"
    /\ UNCHANGED << camaras, tareas_activas, peticiones, formato_nombre, FORMATO_VIDEO, reloj, dir_existe, max_hilos,
                    num_hilos, lanzados, queue, pendientes, resultados, hilo, sesiones >>

(***************************************************************************)
(* api.py: POST /capturar and its background task.  The handler is a       *)
(* coroutine without awaits, so it is one step; background_capture_all     *)
(* runs in a thread of the pool after the response is sent, concurrently   *)
(* with later requests.  Its capture run is the run modelled above; here   *)
(* only the end of the run (and of guardar_resultados) is a step, by       *)
(* return or by an exception.                                              *)
(***************************************************************************)
\* task_id = f"task_{datetime.now().strftime('%Y%m%d%H%M%S')}"
TaskIdDe(ahora) == ahora

\* lines 196-204: the task is added, the id is registered as pendiente and
\* returned (requests arrive in the order of their numbers)
capturar_todas(r) ==
    /\ opc \in { "inactivo", "api" }
    /\ peticiones[r].pc = "sin_pedir"
    /\ IF r = 1 THEN TRUE ELSE peticiones[r - 1].pc # "sin_pedir"
    /\ opc' = "api"
    /\ tareas_activas' = [tareas_activas EXCEPT ![TaskIdDe(reloj)] = "pendiente"]
    /\ peticiones' = [peticiones EXCEPT ![r] = [pc |-> "encolada", task_id |-> TaskIdDe(reloj)]]
    /\ UNCHANGED << camaras, formato_nombre, FORMATO_VIDEO, reloj, dir_existe, max_hilos,
                    num_hilos, lanzados, queue, pendientes, resultados, hilo, sesiones >>

\* lines 106-113: no enabled camera is an error, otherwise en_progreso
background_capture_all_inicio(r) ==
    /\ peticiones[r].pc = "encolada"
    /\ IF SinCamaras(camaras)
       THEN /\ tareas_activas' = [tareas_activas EXCEPT ![peticiones[r].task_id] = "error"]
            /\ peticiones' = [peticiones EXCEPT ![r].pc = "terminada"]
       ELSE /\ tareas_activas' = [tareas_activas EXCEPT ![peticiones[r].task_id] = "en_progreso"]
            /\ peticiones' = [peticiones EXCEPT ![r].pc = "capturando"]
    /\ UNCHANGED << camaras, formato_nombre, FORMATO_VIDEO, reloj, dir_existe, opc, max_hilos,
                    num_hilos, lanzados, queue, pendientes, resultados, hilo, sesiones >>

SalidasDeCaptura == { "retorno", "excepcion" }

\* lines 116-134: the run and guardar_resultados are over: completado, or
\* error when one of them raised
background_capture_all_fin(r, salida) ==
    /\ peticiones[r].pc = "capturando"
    /\ tareas_activas' = [tareas_activas EXCEPT ![peticiones[r].task_id] =
                             IF salida = "retorno" THEN "completado" ELSE "error"]
    /\ peticiones' = [peticiones EXCEPT ![r].pc = "terminada"]
    /\ UNCHANGED << camaras, formato_nombre, FORMATO_VIDEO, reloj, dir_existe, opc, max_hilos,
                    num_hilos, lanzados, queue, pendientes, resultados, hilo, sesiones >>

Worker(w) == WWhile(w) \/ WGet(w) \/ WConectar(w) \/ WBucle(w) \/ WAppend(w) \/ WTaskDone(w)

ValoresMaxHilos == 0..MaxHilos

Next ==
    \/ Tick
    \/ \E formato \in FormatosPedidos : cambiar_formato_video(formato)
    \/ \E p \in ValoresMaxHilos : Llamar(p)
    \/ Lanzar
    \/ Esperar
    \/ Retornar
    \/ \E i \in 1..MaxCamaras : CapturarUna(i)
    \/ RetornarUna
    \/ \E r \in Peticiones : capturar_todas(r)
    \/ \E r \in Peticiones : background_capture_all_inicio(r)
    \/ \E r \in Peticiones, salida \in SalidasDeCaptura : background_capture_all_fin(r, salida)
    \/ \E w \in Hilos : Worker(w)

Spec == Init /\ [][Next]_vars

(***************************************************************************)
(* Vocabulary of the properties.                                           *)
(***************************************************************************)
\* capturar_todas_las_camaras has returned the list of a non-empty run
Retornada == opc = "retornado" /\ camaras # << >>

IdsDeCamaras == { camaras[i].id : i \in 1..Len(camaras) }

CamaraDe(id) == camaras[CHOOSE i \in 1..Len(camaras) : camaras[i].id = id]

\* the positions of the result list that hold a record of camera id
RegistrosDe(id) == { k \in 1..Len(resultados) : resultados[k].id = id }

\* a thread is inside a capturar_video call
EnCapturarVideo(w) == hilo[w].pc \in { "conectar", "bucle" }

\* a thread holds a descriptor it took from the queue and has not yet
\* reported with task_done
ConDescriptor(w) == hilo[w].pc \in { "conectar", "bucle", "append", "task_done" }

\* a thread can take a step
PuedeAvanzar(w) ==
    \/ hilo[w].pc \in { "while", "conectar", "bucle", "append", "task_done" }
    \/ hilo[w].pc = "get" /\ queue # << >>

(***************************************************************************)
(* C1.  With the format the program passes, FORMATO_NOMBRE, the list      *)
(* returned for a non-empty camera list with distinct ids holds exactly    *)
(* len(camaras) records, exactly one per descriptor id, whatever max_hilos.*)
(***************************************************************************)
C1_UnRegistroPorCamara ==
    (/\ Retornada
     /\ formato_nombre = FORMATO_NOMBRE
     /\ \A i \in 1..Len(camaras) : CamposLeidos \subseteq DOMAIN camaras[i]) =>
        /\ Len(resultados) = Len(camaras)
        /\ \A id \in IdsDeCamaras : Cardinality(RegistrosDe(id)) = 1

(***************************************************************************)
(* C2.  Every camera whose capture failed, for any reason, the exceptions  *)
(* raised before the try of capturar_video included, has a record with     *)
(* exito = FALSE and a message in the returned list.                       *)
(***************************************************************************)
C2_FalloComoDato ==
    Retornada =>
        \A id \in IdsDeCamaras :
            (\/ sesiones[id].fin = "excepcion"
             \/ sesiones[id].fin = "retorno" /\ ~sesiones[id].retorno.exito)
            => \E k \in RegistrosDe(id) : ~resultados[k].exito /\ resultados[k].mensaje # << >>

(***************************************************************************)
(* C3.  Barrier: when capturar_todas_las_camaras returns the queue is      *)
(* empty, no thread is inside capturar_video or still holds a descriptor,  *)
(* and every record a call produced is in the list; a thread that is about *)
(* to call task_done for a call that returned has appended its record.     *)
(***************************************************************************)
C3_Barrera ==
    /\ Retornada =>
          /\ queue = << >>
          /\ \A w \in Hilos : ~EnCapturarVideo(w) /\ ~ConDescriptor(w)
          /\ \A id \in IdsDeCamaras :
                /\ sesiones[id].llamadas > 0 => sesiones[id].fin # ""
                /\ sesiones[id].fin = "retorno" =>
                      \E k \in RegistrosDe(id) :
                          /\ resultados[k].exito = sesiones[id].retorno.exito
                          /\ resultados[k].archivo = sesiones[id].retorno.archivo
                          /\ resultados[k].mensaje = sesiones[id].retorno.mensaje
    /\ \A w \in Hilos :
          (hilo[w].pc = "task_done" /\ sesiones[hilo[w].camara.id].fin = "retorno")
          => RegistrosDe(hilo[w].camara.id) # { }

C3_Testigo ==
    /\ Retornada
    /\ max_hilos = 2
    /\ Len(camaras) = 2
    /\ \A id \in IdsDeCamaras : sesiones[id].fin = "retorno"
    /\ \E k \in 1..Len(resultados) : resultados[k].exito

(***************************************************************************)
(* C4.  Termination of the orchestrator for every integer max_hilos: while *)
(* it waits in queue.join() with tasks unfinished, some thread can take a  *)
(* step (every capturar_video call terminates, so a thread that can step   *)
(* brings the next task_done).                                             *)
(***************************************************************************)
C4_JoinNoEsperaEnVano ==
    (opc = "join" /\ ~JoinListo(pendientes)) => \E w \in Hilos : PuedeAvanzar(w)

(***************************************************************************)
(* C5.  Exactly-once dispatch: no descriptor is ever handed to a second    *)
(* capturar_video call, and once the threads started have all ended, or    *)
(* the run has returned, every descriptor has had exactly one call.        *)
(***************************************************************************)
C5_DespachoUnico ==
    /\ \A id \in Ids : sesiones[id].llamadas <= 1
    /\ \A id \in Ids \ IdsDeCamaras : sesiones[id].llamadas = 0
    /\ (\/ Retornada
        \/ lanzados >= 1 /\ \A w \in 1..lanzados : hilo[w].pc = "terminado")
       => \A id \in IdsDeCamaras : sesiones[id].llamadas = 1

C5_Testigo ==
    /\ Retornada
    /\ Len(camaras) = 2
    /\ lanzados = 2
    /\ \A w \in Hilos : hilo[w].pc = "terminado"
    /\ \A id \in IdsDeCamaras : sesiones[id].llamadas = 1

(***************************************************************************)
(* C6.  Isolation: in a run over N >= 2 cameras of which exactly one is    *)
(* set to fail, the run yields N records and every healthy camera has had   *)
(* its call and is reported successful.                                    *)
(***************************************************************************)
\* a camera whose capture succeeds when nothing else interferes: a complete
\* descriptor, a 200 response, reads that do not fail and deliver a frame,
\* a duracion that does not elapse and an fps that is not 0
Sana(c) ==
    /\ CamposLeidos \subseteq DOMAIN c
    /\ Servidor(c.url).conexion = "respuesta"
    /\ Servidor(c.url).status_code = CodigoOK
    /\ \A k \in 1..Len(Servidor(c.url).flujo) : ~Servidor(c.url).flujo[k].err
    /\ \E k \in 1..Len(Servidor(c.url).flujo) :
          \E f \in imdecode(Servidor(c.url).flujo[k].datos) : f.tipo = "frame"
    /\ Get(c, "duracion", DuracionPorDefecto) > MaxReloj
    /\ Get(c, "fps", FpsPorDefecto) # 0

UnaSolaFalla ==
    /\ Len(camaras) >= 2
    /\ Cardinality({ i \in 1..Len(camaras) : ~Sana(camaras[i]) }) = 1

C6_Aislamiento ==
    (Retornada /\ UnaSolaFalla) =>
        /\ Len(resultados) = Len(camaras)
        /\ \A i \in 1..Len(camaras) :
              Sana(camaras[i]) =>
                  /\ sesiones[camaras[i].id].llamadas = 1
                  /\ \E k \in RegistrosDe(camaras[i].id) : resultados[k].exito

(***************************************************************************)
(* C7.  Parallelism independence: whatever max_hilos, the returned list    *)
(* holds, in some order, exactly the records of the capturar_video calls   *)
(* that returned, each built from its camera and the triple its call       *)
(* returned, and nothing else; so the set of records is a function of the  *)
(* camera list and the per-camera session behaviour alone.                 *)
(***************************************************************************)
RegistroEsperado(id) ==
    [id |-> id, nombre |-> CamaraDe(id).nombre, exito |-> sesiones[id].retorno.exito,
     archivo |-> sesiones[id].retorno.archivo, mensaje |-> sesiones[id].retorno.mensaje]

C7_ConjuntoSegunSesiones ==
    Retornada =>
        /\ \A k \in 1..Len(resultados) :
              /\ resultados[k].id \in IdsDeCamaras
              /\ sesiones[resultados[k].id].fin = "retorno"
              /\ resultados[k] = RegistroEsperado(resultados[k].id)
        /\ \A id \in IdsDeCamaras :
              Cardinality(RegistrosDe(id)) = IF sesiones[id].fin = "retorno" THEN 1 ELSE 0

C7_Testigo ==
    /\ Retornada
    /\ Len(camaras) = 2
    /\ max_hilos = 1
    /\ num_hilos < Len(camaras)
    /\ Len(resultados) = 2
    /\ resultados[1].exito /\ ~resultados[2].exito

(***************************************************************************)
(* C8.  A session whose connection attempt raises a requests exception, or *)
(* whose response status is not 200, returns exito = FALSE with a message  *)
(* naming the cause, without a read and without ever opening the writer.   *)
(***************************************************************************)
C8_FalloDeConexion ==
    \A w \in Hilos :
        hilo[w].pc = "append" =>
            LET srv == Servidor(hilo[w].camara.url)
                sinArchivo == /\ ~hilo[w].retorno.exito
                              /\ hilo[w].out = "None"
                              /\ hilo[w].escrituras = 0
                              /\ hilo[w].leidos = 0
            IN  /\ srv.conexion = "RequestException" =>
                      /\ sinArchivo
                      /\ hilo[w].retorno.mensaje = << "Error de conexion para", hilo[w].camara.nombre >>
                /\ (srv.conexion = "respuesta" /\ srv.status_code # CodigoOK) =>
                      /\ sinArchivo
                      /\ hilo[w].retorno.mensaje = << "Error al conectar a la URL de",
                                                      hilo[w].camara.nombre, srv.status_code >>

C8_Testigo ==
    \E w \in Hilos :
        /\ hilo[w].pc = "append"
        /\ Servidor(hilo[w].camara.url).conexion = "respuesta"
        /\ Servidor(hilo[w].camara.url).status_code # CodigoOK
        /\ ~hilo[w].retorno.exito

(***************************************************************************)
(* C9.  As stated: a session reports success exactly when at least one     *)
(* frame was decoded and written (stated for the sessions whose fps is not *)
(* 0, where the progress test cannot fail).                                *)
(***************************************************************************)
C9_ExitoSiiFrames ==
    \A w \in Hilos :
        (hilo[w].pc = "append" /\ ~ProgresoFalla(hilo[w]))
        => (hilo[w].retorno.exito <=> hilo[w].frames_captured >= 1)

\* all the bytes a stream delivers
RECURSIVE BytesDe(_)
BytesDe(flujo) == IF flujo = << >> THEN << >> ELSE Head(flujo).datos \o BytesDe(Tail(flujo))

\* no six consecutive bytes of the stream decode to a frame
SinFrameDecodificable(url) ==
    LET b == BytesDe(Servidor(url).flujo)
    IN  \A i \in 1..(Len(b) - 5) : \A f \in imdecode(SubSeq(b, i, i + 5)) : f.tipo # "frame"

(***************************************************************************)
(* C9, amended.  Every outcome with exito = TRUE has frames_captured >= 1  *)
(* and a released writer; a session with frames_captured = 0, and so every *)
(* session whose stream holds no decodable payload, has never opened the   *)
(* writer and returns exito = FALSE.                                       *)
(***************************************************************************)
C9_ExitoImplicaFrames ==
    \A w \in Hilos :
        hilo[w].pc = "append" =>
            /\ hilo[w].retorno.exito =>
                  /\ hilo[w].frames_captured >= 1
                  /\ hilo[w].escrituras = hilo[w].frames_captured
                  /\ hilo[w].out = "liberado"
            /\ hilo[w].frames_captured = 0 =>
                  /\ hilo[w].out = "None"
                  /\ ~hilo[w].retorno.exito
            /\ SinFrameDecodificable(hilo[w].camara.url) => hilo[w].frames_captured = 0

C9_Testigo ==
    \E w \in Hilos :
        /\ hilo[w].pc = "append"
        /\ Servidor(hilo[w].camara.url).status_code = CodigoOK
        /\ Servidor(hilo[w].camara.url).flujo # << >>
        /\ SinFrameDecodificable(hilo[w].camara.url)
        /\ hilo[w].leidos = Len(Servidor(hilo[w].camara.url).flujo)
        /\ ~hilo[w].retorno.exito

(***************************************************************************)
(* C10.  A session that has opened its video writer has released it        *)
(* exactly once when it returns its result, on every exit path.            *)
(***************************************************************************)
C10_LiberadoUnaVez ==
    \A w \in Hilos :
        (hilo[w].pc = "append" /\ hilo[w].escrituras >= 1)
        => (hilo[w].out = "liberado" /\ hilo[w].liberaciones = 1)

\* os.path.splitext(archivo)[1] without the dot, on the paths of the model
Extension(archivo) ==
    LET ultimo == archivo[Len(archivo)]
    IN  CASE ultimo = ".mp4" -> "mp4"
          [] ultimo = ".avi" -> "avi"
          [] OTHER -> ultimo

(***************************************************************************)
(* C11.  Format switch: a session that has opened its writer asked for the *)
(* codec of the video format set at that time (the setting changes only    *)
(* between captures), and its output path carries the extension of that    *)
(* format.                                                                 *)
(***************************************************************************)
C11_CodecYExtensionDelFormato ==
    \A w \in Hilos :
        hilo[w].out # "None" =>
            /\ hilo[w].fourcc = obtener_codec(FORMATO_VIDEO)
            /\ Extension(hilo[w].output_filename) = obtener_extension(FORMATO_VIDEO)

(***************************************************************************)
(* C12.  File naming: a capturar_video call made with FORMATO_NOMBRE for a *)
(* complete descriptor builds its file name without raising, and the path  *)
(* is the directory, camara_<id>_<timestamp> and the extension of the      *)
(* current video format.                                                   *)
(***************************************************************************)
C12_NombreSegunFormato ==
    \A w \in Hilos :
        (/\ hilo[w].camara # SinCamara
         /\ CamposLeidos \subseteq DOMAIN hilo[w].camara
         /\ formato_nombre = FORMATO_NOMBRE) =>
            /\ hilo[w].excepcion # "KeyError"
            /\ Len(hilo[w].output_filename) = 7
            /\ hilo[w].output_filename[1] = DIRECTORIO_VIDEOS
            /\ hilo[w].output_filename[3] = hilo[w].camara.id
            /\ hilo[w].output_filename[7] = obtener_extension(FORMATO_VIDEO)

(***************************************************************************)
(* C13.  An empty camera list short-circuits: no step of a run over the    *)
(* empty list creates the directory, fills the queue, starts a thread or   *)
(* runs a session, and the list returned is empty (the API does not even  *)
(* call the run when no camera is enabled).                                *)
(***************************************************************************)
C13_ListaVaciaSinEfecto ==
    [][camaras = << >> =>
          /\ dir_existe' = dir_existe
          /\ queue' = << >>
          /\ pendientes' = 0
          /\ lanzados' = 0
          /\ hilo' = hilo
          /\ sesiones' = sesiones
          /\ opc' \in { "inactivo", "retornado", "api" }
          /\ resultados' = << >>]_vars

C13_Testigo ==
    /\ camaras = << >>
    /\ opc = "retornado"
    /\ ~dir_existe
    /\ resultados = << >>
    /\ \A w \in Hilos : hilo[w] = HiloNuevo

(***************************************************************************)
(* C14.  Directory ordering: whenever a session has opened its video       *)
(* writer, in a run of capturar_todas_las_camaras or in a direct call of   *)
(* capturar_video for one camera, the output directory exists.             *)
(***************************************************************************)
C14_DirectorioAntesDeEscribir ==
    \A w \in Hilos : hilo[w].out # "None" => dir_existe

\* the session of frame h has left its loop at a read that returned no bytes:
\* it returned from lines 124-133 with the whole stream read and its deadline
\* not reached
FinDeFlujo(h) ==
    /\ h.pc = "append"
    /\ h.excepcion = ""
    /\ Servidor(h.camara.url).conexion = "respuesta"
    /\ Servidor(h.camara.url).status_code = CodigoOK
    /\ h.leidos = Len(Servidor(h.camara.url).flujo)
    /\ DentroDelPlazo(h, reloj)

\* a start marker followed later by an end marker
ContieneFrameCompleto(bytes) ==
    \E a \in 0..(Len(bytes) - 2) : \E b \in 0..(Len(bytes) - 2) :
        /\ a + 2 <= b
        /\ bytes[a + 1] = ByteFF /\ bytes[a + 2] = ByteD8
        /\ bytes[b + 1] = ByteFF /\ bytes[b + 2] = ByteD9

(***************************************************************************)
(* C15.  Frame delivery is complete at stream end: when the read returns   *)
(* no bytes before the deadline, no complete frame is left in the buffer,  *)
(* also when one chunk carried several frames.                             *)
(***************************************************************************)
C15_EntregaCompleta ==
    \A w \in Hilos : FinDeFlujo(hilo[w]) => ~ContieneFrameCompleto(hilo[w].bytes_data)

\* the first end marker of the buffer lies before its first start marker
FinAntesDeInicio(bytes) ==
    /\ Find(bytes, ByteFF, ByteD8) # -1
    /\ Find(bytes, ByteFF, ByteD9) # -1
    /\ Find(bytes, ByteFF, ByteD9) < Find(bytes, ByteFF, ByteD8)

\* the buffer the next pass of the body works on
BufferSiguiente(h) == h.bytes_data \o ChunkSiguiente(h)

(***************************************************************************)
(* C16.  End marker before start marker: on such a buffer the extraction   *)
(* step hands no payload to the decoder and keeps the buffer from the      *)
(* start marker on.                                                        *)
(***************************************************************************)
C16_FinAntesDeInicio ==
    \A w \in Hilos :
        (hilo[w].pc = "bucle" /\ FinAntesDeInicio(BufferSiguiente(hilo[w]))) =>
            LET buf == BufferSiguiente(hilo[w])
            IN  /\ ~Extraer(buf).hay
                /\ Extraer(buf).resto = SliceFrom(buf, Find(buf, ByteFF, ByteD8))

(***************************************************************************)
(* C17.  Sliding window: every payload handed to the decoder begins with   *)
(* FF D8 and ends with FF D9, and what stays buffered after an extraction  *)
(* holds none of the bytes of the payload.                                 *)
(***************************************************************************)
C17_CargaDelimitada ==
    \A w \in Hilos :
        hilo[w].entregas >= 1 =>
            LET jpg == hilo[w].jpg_data
            IN  /\ Len(jpg) >= 4
                /\ jpg[1] = ByteFF /\ jpg[2] = ByteD8
                /\ jpg[Len(jpg) - 1] = ByteFF /\ jpg[Len(jpg)] = ByteD9

\* the frames written by a session that reads a stream to its end, with buf
\* buffered: one extraction per read, a payload counts when it decodes
RECURSIVE FramesDeLaSesion(_, _)
FramesDeLaSesion(buf, flujo) ==
    IF flujo = << >> THEN 0
    ELSE LET e == Extraer(buf \o Head(flujo).datos)
             escrito == e.hay /\ \E f \in imdecode(e.jpg_data) : f.tipo = "frame"
         IN  (IF escrito THEN 1 ELSE 0) + FramesDeLaSesion(e.resto, Tail(flujo))

\* the stream of a server with its payloads that do not decode taken out
SinCargasFallidas(url) ==
    CASE url = "http://corrupto_y_bueno" -> "http://uno"
      [] url = "http://corrupto" -> "http://vacio"
      [] OTHER -> url

(***************************************************************************)
(* C18.  A payload that fails to decode is skipped without effect: a       *)
(* session that has read its stream to the end reports the outcome, and    *)
(* has written the frames, of the same stream without that payload.        *)
(***************************************************************************)
C18_CargaFallidaSinEfecto ==
    \A w \in Hilos :
        FinDeFlujo(hilo[w]) =>
            LET sin == Servidor(SinCargasFallidas(hilo[w].camara.url)).flujo
            IN  /\ hilo[w].frames_captured = FramesDeLaSesion(<< >>, sin)
                /\ hilo[w].retorno.exito = (FramesDeLaSesion(<< >>, sin) >= 1)

\* the geometry of the first payload that a session reading a stream, with
\* buf buffered, decodes; << >> when it decodes none
RECURSIVE PrimerFrame(_, _)
PrimerFrame(buf, flujo) ==
    IF flujo = << >> THEN << >>
    ELSE LET e == Extraer(buf \o Head(flujo).datos)
             frames == IF e.hay THEN { f \in imdecode(e.jpg_data) : f.tipo = "frame" } ELSE { }
         IN  IF frames # { }
             THEN LET f == CHOOSE f \in frames : TRUE IN << f.ancho, f.alto >>
             ELSE PrimerFrame(e.resto, Tail(flujo))

(***************************************************************************)
(* C19.  Within one session the video writer is opened at most once, at    *)
(* the first decoded frame and with its width and height; frame_size keeps *)
(* that value, every decoded frame is one write on that writer, and        *)
(* frames_captured equals the number of writes.                            *)
(***************************************************************************)
C19_EscritorUnico ==
    \A w \in Hilos :
        /\ hilo[w].aperturas <= 1
        /\ hilo[w].frames_captured = hilo[w].escrituras
        /\ (hilo[w].out = "None") <=> (hilo[w].aperturas = 0)
        /\ (hilo[w].frame_size = << >>) <=> (hilo[w].aperturas = 0)
        /\ (hilo[w].frames_captured >= 1) <=> (hilo[w].aperturas = 1)
        /\ hilo[w].frame_size # << >> =>
              hilo[w].frame_size = PrimerFrame(<< >>, Servidor(hilo[w].camara.url).flujo)

C19_Testigo ==
    \E w \in Hilos :
        /\ hilo[w].frames_captured = 2
        /\ hilo[w].aperturas = 1
        /\ hilo[w].frame_size = << 1, 1 >>
        /\ hilo[w].jpg_data = Frame(2, 1)

\* the state of the session of a frame, in the words of the state machine
Fase(h) ==
    CASE h.pc = "conectar" -> "Connecting"
      [] h.pc = "bucle" -> "Streaming"
      [] h.pc = "append" /\ h.retorno.exito -> "Completed"
      [] h.pc = "append" /\ ~h.retorno.exito -> "Failed"
      [] OTHER -> "none"

(***************************************************************************)
(* C20.  Session state machine: a capturar_video call that has built its   *)
(* file name moves only along Connecting -> Streaming -> {Completed,       *)
(* Failed} or Connecting -> Failed, with exactly one connection attempt    *)
(* made when it leaves Connecting; in Completed and in Failed the frame    *)
(* and its one triple stay as they are until the call has returned.        *)
(***************************************************************************)
C20_MaquinaDeSesion ==
    [][\A w \in Hilos :
          LET antes == Fase(hilo[w])
              despues == Fase(hilo'[w])
          IN  \/ hilo'[w] = hilo[w]
              \/ /\ antes = "none" => despues \in { "none", "Connecting" }
                 /\ antes = "Connecting" => despues \in { "Streaming", "Failed" }
                 /\ antes = "Streaming" => despues \in { "Streaming", "Completed", "Failed" }
                 /\ antes \in { "Completed", "Failed" } => despues = "none"
                 /\ despues = "Connecting" => hilo'[w].conexiones = 0
                 /\ despues \in { "Streaming", "Completed", "Failed" } =>
                       hilo'[w].conexiones = 1]_vars

C20_Testigo ==
    \E w \in Hilos :
        /\ Fase(hilo[w]) = "Failed"
        /\ hilo[w].excepcion = "ReadError"
        /\ hilo[w].leidos >= 1
        /\ hilo[w].conexiones = 1

\* the stream of the session of frame h, and its duracion
FlujoDe(h) == Servidor(h.camara.url).flujo

DuracionDe(h) == Get(h.camara, "duracion", DuracionPorDefecto)

(***************************************************************************)
(* C21.  Deadline: a pass of the capture loop reads a chunk only while the *)
(* time elapsed since start_time is below duracion and the stream has      *)
(* bytes left; at or past the deadline, or at a read that returns no       *)
(* bytes, the pass leaves the loop for the return of the session without   *)
(* another read.  So every pass either uses up one chunk or ends the loop, *)
(* and the loop ends at the first pass that follows the deadline.          *)
(***************************************************************************)
C21_Plazo ==
    [][\A w \in Hilos :
          (hilo[w].pc = "bucle" /\ hilo'[w] # hilo[w]) =>
              IF /\ reloj - hilo[w].start_time < DuracionDe(hilo[w])
                 /\ hilo[w].leidos < Len(FlujoDe(hilo[w]))
              THEN /\ hilo'[w].leidos = hilo[w].leidos + 1
                   /\ hilo'[w].pc \in { "bucle", "append" }
              ELSE /\ hilo'[w].leidos = hilo[w].leidos
                   /\ hilo'[w].pc = "append"
                   /\ hilo'[w].excepcion = ""]_vars

C21_Testigo ==
    \E w \in Hilos :
        /\ hilo[w].pc = "append"
        /\ hilo[w].excepcion = ""
        /\ hilo[w].leidos >= 1
        /\ hilo[w].leidos < Len(FlujoDe(hilo[w]))
        /\ reloj - hilo[w].start_time >= DuracionDe(hilo[w])

\* the sessions in progress
SesionesEnCurso == { w \in Hilos : EnCapturarVideo(w) }

\* the run in progress is one of capturar_todas_las_camaras over a list that
\* is not empty
EnOrquestacion == opc \in { "lanzando", "join", "retornado" } /\ camaras # << >>

(***************************************************************************)
(* C22.  Bounded parallelism: a run over n cameras with max_hilos = P >= 1 *)
(* starts exactly min(P, n) threads, and at every moment at most min(P, n) *)
(* sessions are in progress, at most one per thread started.               *)
(***************************************************************************)
C22_ParalelismoAcotado ==
    (EnOrquestacion /\ max_hilos >= 1) =>
        LET tope == IF max_hilos < Len(camaras) THEN max_hilos ELSE Len(camaras)
        IN  /\ lanzados <= tope
            /\ opc \in { "join", "retornado" } => lanzados = tope
            /\ Cardinality(SesionesEnCurso) <= tope
            /\ SesionesEnCurso \subseteq 1..lanzados
            /\ \A w \in Hilos : w > lanzados => hilo[w].pc = "sin_lanzar"

C22_Testigo ==
    /\ EnOrquestacion
    /\ Len(camaras) = 2
    /\ max_hilos = 1
    /\ opc = "join"
    /\ lanzados = 1
    /\ queue # << >>
    /\ SesionesEnCurso = { 1 }

(***************************************************************************)
(* C23.  Worker termination: no worker that has passed the queue.empty()   *)
(* test waits in queue.get() on an empty queue (nothing is put on the      *)
(* queue once the threads are started, so such a worker never ends), and   *)
(* when the run returns every thread it started has left its loop.         *)
(***************************************************************************)
C23_NingunHiloBloqueado ==
    /\ \A w \in Hilos : hilo[w].pc = "get" => queue # << >>
    /\ Retornada => \A w \in 1..lanzados : hilo[w].pc \in { "while", "terminado" }

(***************************************************************************)
(* C24.  API task status: the status stored under the id returned to a     *)
(* request follows the background task of that request: pendiente until    *)
(* the task starts, en_progreso while its capture run is under way, and    *)
(* completado or error, for good, once it is over; in particular it is     *)
(* completado only when the run started for that request has finished.     *)
(***************************************************************************)
C24_EstadoSigueALaTarea ==
    \A r \in Peticiones :
        LET estado == tareas_activas[peticiones[r].task_id]
        IN  /\ peticiones[r].pc = "encolada" => estado = "pendiente"
            /\ peticiones[r].pc = "capturando" => estado = "en_progreso"
            /\ peticiones[r].pc = "terminada" => estado \in { "completado", "error" }

=============================================================================
